---- MODULE Spec2Model ----
(***************************************************************************)
(* Model of custom_components/polestar_api/entity.py: the entity           *)
(* descriptor (PolestarEntityDescription), the entity (PolestarEntity)     *)
(* with its constructor, its update callback and its two getters, and the  *)
(* externally owned coordinator the entity reads from.                     *)
(*                                                                         *)
(* Python values are tagged records: None, int, str, dict, a transform     *)
(* function, the result of a transform call, and a coordinator sub-object  *)
(* (an object with a truth value and a set of named fields).               *)
(***************************************************************************)
EXTENDS FiniteSets, Integers, Sequences, TLC

VARIABLES
    coordinator,   \* the PolestarCoordinator: vin, model, name and the four sub-objects
    refreshed,     \* what the external refresh last set the coordinator to
    refreshes,     \* number of external refreshes so far
    desc,          \* the PolestarEntityDescription, or NoDescription
    entity,        \* the PolestarEntity, or NoEntity
    op,            \* the operation that ran last
    args,          \* the arguments it was called with
    ret,           \* what it returned or raised
    log,           \* the log records it emitted, in order
    fnCalls,       \* how many times it called data_state_fn
    trace,         \* the steps of the last _handle_coordinator_update, in order
    computed       \* what get_extra_state_attributes returned at the last construction/notification

vars == <<coordinator, refreshed, refreshes, desc, entity, op, args, ret, log, fnCalls, trace, computed>>

----------------------------------------------------------------------------
(* Bounds *)

MaxRefresh == 1      \* number of external refreshes in a behaviour

----------------------------------------------------------------------------
(* Python values *)

PyNone == [t |-> "None"]
PyInt(n) == [t |-> "int", v |-> n]
PyStr(s) == [t |-> "str", s |-> s]
PyDict(d) == [t |-> "dict", d |-> d]
PyFn(n) == [t |-> "fn", name |-> n]
PyObj(truthy, fields) == [t |-> "obj", truthy |-> truthy, f |-> fields]

\* bool(x)
Truthy(x) ==
    CASE x.t = "None" -> FALSE
      [] x.t = "int"  -> x.v # 0
      [] x.t = "str"  -> x.s # ""
      [] x.t = "dict" -> DOMAIN x.d # {}
      [] x.t = "obj"  -> x.truthy
      [] OTHER        -> TRUE

\* x
OrEmptyDictDropped(x) == x

\* x or {}
OrEmptyDict(x) == IF Truthy(x) THEN x ELSE PyDict(<< >>)

\* the result of calling the transform fn on v: a value that is neither v nor None
Call(fn, v) == [t |-> "result", fn |-> fn.name, of |-> v]

----------------------------------------------------------------------------
(* class PolestarEntityDataSource(StrEnum) *)

INFORMATION == "car_information_data"
ODOMETER == "car_odometer_data"
BATTERY == "car_battery_data"
HEALTH == "car_health_data"

PolestarEntityDataSource == {INFORMATION, ODOMETER, BATTERY, HEALTH}

----------------------------------------------------------------------------
(* Input sets *)

FieldNames == {"a", "b"}
\* a field holds None, a falsy value or a truthy value
Values == {PyNone, PyInt(0), PyInt(1)}

\* an object with some of the fields, each holding a value or None
Objects ==
    UNION { { PyObj(tr, f) : tr \in BOOLEAN, f \in [S -> Values] } : S \in SUBSET FieldNames }

SubObjects == {PyNone} \cup Objects

\* the data sources the external refresh polls in the checked behaviours
PolledSources == {INFORMATION, BATTERY}

DescSources == {PyNone, PyStr(BATTERY)}
DescAttributes == {PyNone, PyStr(""), PyStr("a")}
DescFns == {PyNone, PyFn("fn")}
DescExtras ==
    { PyNone,
      PyDict(<< >>),
      PyDict(<< <<"k1", "a">> >>),
      PyDict(<< <<"k1", "a">>, <<"k2", "b">> >>) }

DOMAIN_ == "polestar_api"
Key == "key"
Vin == "VIN"

NoDescription == [t |-> "absent"]
NoEntity == [t |-> "absent"]

----------------------------------------------------------------------------
(* getattr / hasattr *)

\* getattr(coordinator, name, None)
GetAttrCoordinator(c, name) ==
    IF name \in DOMAIN c THEN c[name] ELSE PyNone

\* hasattr(data, name)
HasAttr(data, name) ==
    /\ data.t = "obj"
    /\ name \in DOMAIN data.f

\* getattr(data, name, None)
GetAttr(data, name) ==
    IF HasAttr(data, name) THEN data.f[name] ELSE PyNone

\* res[key] = value
DictSet(res, key, value) ==
    [k \in DOMAIN res \cup {key} |-> IF k = key THEN value ELSE res[k]]

LogRecord(level, what, attribute) == [level |-> level, what |-> what, attribute |-> attribute]

----------------------------------------------------------------------------
(* PolestarEntityDescription *)

\* a validation that only notices a data source without an attribute
PostInitRaisesOneWay(data_source, data_state_attribute) ==
    Truthy(data_source) /\ ~Truthy(data_state_attribute)

\* __post_init__: TRUE when it raises ValueError
PostInitRaises(data_source, data_state_attribute) ==
    Truthy(data_source) # Truthy(data_state_attribute)

EntityDescription(data_source, data_state_attribute, data_state_fn, data_extra_state_attributes) ==
    [t |-> "description",
     key |-> Key,
     data_source |-> data_source,
     data_state_attribute |-> data_state_attribute,
     data_state_fn |-> data_state_fn,
     data_extra_state_attributes |-> data_extra_state_attributes]

----------------------------------------------------------------------------
(* PolestarEntity.get_extra_state_attributes *)

\* "if data is None": the coordinator does not have the data source
ExtraDataMissing(data) == data = PyNone

\* "continue" without the assignment
ExtraMissingAttributeSkipped(res, key) == res

\* "res[key] = None; continue": the data source lacks the requested attribute
ExtraMissingAttribute(res, key) == DictSet(res, key, PyNone)

\* the loop over data_extra_state_attributes.items(), from item i on
RECURSIVE ExtraLoop(_, _, _, _, _)
ExtraLoop(items, data, i, res, lg) ==
    IF i > Len(items) THEN [ret |-> PyDict(res), log |-> lg]
    ELSE LET key == items[i][1]
             data_attribute == items[i][2]
         IN  IF ~HasAttr(data, data_attribute)
             THEN ExtraLoop(items, data, i + 1, ExtraMissingAttribute(res, key),
                            Append(lg, LogRecord("error", "invalid", data_attribute)))
             ELSE LET value == GetAttr(data, data_attribute)
                  IN  ExtraLoop(items, data, i + 1, DictSet(res, key, value),
                                IF value = PyNone
                                THEN Append(lg, LogRecord("debug", "unavailable", data_attribute))
                                ELSE lg)

get_extra_state_attributes(d, c) ==
    IF ~(Truthy(d.data_source) /\ Truthy(d.data_extra_state_attributes))
    THEN [ret |-> PyNone, log |-> << >>]
    ELSE LET data == GetAttrCoordinator(c, d.data_source.s)
         IN  IF ExtraDataMissing(data)
             THEN [ret |-> PyNone,
                   log |-> << LogRecord("debug", "unavailable", d.data_source.s) >>]
             ELSE ExtraLoop(d.data_extra_state_attributes.d, data, 1, << >>, << >>)

----------------------------------------------------------------------------
(* PolestarEntity.get_native_value *)

\* "if not data": the coordinator does not have the data source
NativeDataMissing(data) == ~Truthy(data)

\* "return" without the log call
NativeUnavailableSilent(level, what, attribute) ==
    [raised |-> "", ret |-> PyNone, log |-> << >>, fnCalls |-> 0]

\* "raise" instead of the log call and "return"
NativeUnavailableRaising(level, what, attribute) ==
    [raised |-> "PolestarEntityDataSourceException", ret |-> PyNone,
     log |-> << >>, fnCalls |-> 0]

\* "_LOGGER...; return": log one record and return None
NativeUnavailable(level, what, attribute) ==
    [raised |-> "", ret |-> PyNone,
     log |-> << LogRecord(level, what, attribute) >>, fnCalls |-> 0]

\* the final return: data_state_fn(value) if data_state_fn else value
NativeReturn(d, value) ==
    IF Truthy(d.data_state_fn)
    THEN [raised |-> "", ret |-> Call(d.data_state_fn, value), log |-> << >>, fnCalls |-> 1]
    ELSE [raised |-> "", ret |-> value, log |-> << >>, fnCalls |-> 0]

get_native_value(d, c) ==
    IF ~(Truthy(d.data_source) /\ Truthy(d.data_state_attribute))
    THEN [raised |-> "PolestarEntityDataSourceException", ret |-> PyNone,
          log |-> << >>, fnCalls |-> 0]
    ELSE LET data == GetAttrCoordinator(c, d.data_source.s)
         IN  IF NativeDataMissing(data)
             THEN NativeUnavailable("debug", "unavailable", d.data_source.s)
             ELSE IF ~HasAttr(data, d.data_state_attribute.s)
             THEN NativeUnavailable("error", "invalid", d.data_state_attribute.s)
             ELSE LET value == GetAttr(data, d.data_state_attribute.s)
                  IN  IF value = PyNone
                      THEN NativeUnavailable("debug", "unavailable", d.data_state_attribute.s)
                      ELSE NativeReturn(d, value)

----------------------------------------------------------------------------
(* The coordinator *)

\* PolestarCoordinator.get_short_id()
get_short_id(c) == <<"short", c.vin>>

\* the coordinator before its first refresh: no vehicle data yet
NewCoordinator ==
    [vin |-> Vin, model |-> "model", name |-> "name",
     car_information_data |-> PyNone,
     car_odometer_data |-> PyNone,
     car_battery_data |-> PyNone,
     car_health_data |-> PyNone]

NoReturn == [raised |-> "", value |-> PyNone]

Init ==
    /\ coordinator = NewCoordinator
    /\ refreshed = NewCoordinator
    /\ refreshes = 0
    /\ desc = NoDescription
    /\ entity = NoEntity
    /\ op = "start"
    /\ args = << >>
    /\ ret = NoReturn
    /\ log = << >>
    /\ fnCalls = 0
    /\ trace = << >>
    /\ computed = PyNone

\* the external refresh stores newly polled data for one data source
Refresh(source, data) ==
    /\ refreshes < MaxRefresh
    /\ coordinator' = [coordinator EXCEPT ![source] = data]
    /\ refreshed' = coordinator'
    /\ refreshes' = refreshes + 1
    /\ op' = "refresh"
    /\ args' = <<source, data>>
    /\ ret' = NoReturn
    /\ log' = << >>
    /\ fnCalls' = 0
    /\ trace' = << >>
    /\ UNCHANGED <<desc, entity, computed>>

----------------------------------------------------------------------------
(* PolestarEntityDescription(...) *)

NewDescription(data_source, data_state_attribute, data_state_fn, data_extra_state_attributes) ==
    /\ desc = NoDescription
    /\ IF PostInitRaises(data_source, data_state_attribute)
       THEN /\ ret' = [raised |-> "ValueError", value |-> PyNone]
            /\ desc' = desc
       ELSE /\ ret' = NoReturn
            /\ desc' = EntityDescription(data_source, data_state_attribute,
                                         data_state_fn, data_extra_state_attributes)
    /\ op' = "description"
    /\ args' = <<data_source, data_state_attribute, data_state_fn, data_extra_state_attributes>>
    /\ log' = << >>
    /\ fnCalls' = 0
    /\ trace' = << >>
    /\ UNCHANGED <<coordinator, refreshed, refreshes, entity, computed>>

\* an assignment to a field of the frozen dataclass raises and assigns nothing
SetDescriptionField(field, value) ==
    /\ desc # NoDescription
    /\ desc' = desc
    /\ op' = "setattr"
    /\ args' = <<field, value>>
    /\ ret' = [raised |-> "FrozenInstanceError", value |-> PyNone]
    /\ log' = << >>
    /\ fnCalls' = 0
    /\ trace' = << >>
    /\ UNCHANGED <<coordinator, refreshed, refreshes, entity, computed>>

----------------------------------------------------------------------------
(* PolestarEntity *)

\* __init__
NewEntity ==
    /\ desc # NoDescription
    /\ entity = NoEntity
    /\ LET e == [t |-> "entity",
                 entity_id |-> <<DOMAIN_, "polestar", get_short_id(coordinator), desc.key>>,
                 unique_id |-> <<"polestar", coordinator.vin, desc.key>>,
                 translation_key |-> <<"polestar", desc.key>>,
                 device_info |-> [identifiers |-> {<<DOMAIN_, coordinator.vin>>},
                                  manufacturer |-> "Polestar",
                                  model |-> coordinator.model,
                                  name |-> coordinator.name,
                                  serial_number |-> coordinator.vin],
                 has_extra |-> FALSE,
                 extra |-> PyNone]
           r == get_extra_state_attributes(desc, coordinator)
       IN  IF Truthy(desc.data_extra_state_attributes)
           THEN /\ entity' = [e EXCEPT !.has_extra = TRUE, !.extra = OrEmptyDict(r.ret)]
                /\ log' = r.log
                /\ computed' = r.ret
           ELSE /\ entity' = e
                /\ log' = << >>
                /\ computed' = computed
    /\ op' = "entity"
    /\ args' = << >>
    /\ ret' = NoReturn
    /\ fnCalls' = 0
    /\ trace' = << >>
    /\ UNCHANGED <<coordinator, refreshed, refreshes, desc>>

\* the host's handler called before the store
HandleCoordinatorUpdateSuperFirst ==
    /\ entity # NoEntity
    /\ LET r == get_extra_state_attributes(desc, coordinator)
       IN  IF entity.has_extra
           THEN /\ entity' = [entity EXCEPT !.extra = OrEmptyDict(r.ret)]
                /\ log' = r.log
                /\ computed' = r.ret
                /\ trace' = <<"super", "store">>
           ELSE /\ entity' = entity
                /\ log' = << >>
                /\ computed' = computed
                /\ trace' = <<"super">>
    /\ op' = "update"
    /\ args' = << >>
    /\ ret' = NoReturn
    /\ fnCalls' = 0
    /\ UNCHANGED <<coordinator, refreshed, refreshes, desc>>

\* _handle_coordinator_update: the callback of the update notification
HandleCoordinatorUpdate ==
    /\ entity # NoEntity
    /\ LET r == get_extra_state_attributes(desc, coordinator)
       IN  IF entity.has_extra
           THEN /\ entity' = [entity EXCEPT !.extra = OrEmptyDict(r.ret)]
                /\ log' = r.log
                /\ computed' = r.ret
                /\ trace' = <<"store", "super">>
           ELSE /\ entity' = entity
                /\ log' = << >>
                /\ computed' = computed
                /\ trace' = <<"super">>
    /\ op' = "update"
    /\ args' = << >>
    /\ ret' = NoReturn
    /\ fnCalls' = 0
    /\ UNCHANGED <<coordinator, refreshed, refreshes, desc>>

\* a getter that answers from the stored attributes when there are any
GetExtraStateAttributesCached ==
    /\ entity # NoEntity
    /\ LET r == get_extra_state_attributes(desc, coordinator)
       IN  /\ ret' = [raised |-> "",
                      value |-> IF entity.has_extra THEN entity.extra ELSE r.ret]
           /\ log' = r.log
    /\ op' = "extra"
    /\ args' = << >>
    /\ fnCalls' = 0
    /\ trace' = << >>
    /\ UNCHANGED <<coordinator, refreshed, refreshes, desc, entity, computed>>

\* a call of get_extra_state_attributes by the host
GetExtraStateAttributes ==
    /\ entity # NoEntity
    /\ LET r == get_extra_state_attributes(desc, coordinator)
       IN  /\ ret' = [raised |-> "", value |-> r.ret]
           /\ log' = r.log
    /\ op' = "extra"
    /\ args' = << >>
    /\ fnCalls' = 0
    /\ trace' = << >>
    /\ UNCHANGED <<coordinator, refreshed, refreshes, desc, entity, computed>>

\* a getter that consumes the sub-object it read
GetNativeValueConsuming ==
    /\ entity # NoEntity
    /\ LET r == get_native_value(desc, coordinator)
       IN  /\ ret' = [raised |-> r.raised, value |-> r.ret]
           /\ log' = r.log
           /\ fnCalls' = r.fnCalls
    /\ op' = "native"
    /\ args' = << >>
    /\ trace' = << >>
    /\ coordinator' = IF Truthy(desc.data_source)
                      THEN [coordinator EXCEPT ![desc.data_source.s] = PyNone]
                      ELSE coordinator
    /\ UNCHANGED <<refreshed, refreshes, desc, entity, computed>>

\* a call of get_native_value by the host
GetNativeValue ==
    /\ entity # NoEntity
    /\ LET r == get_native_value(desc, coordinator)
       IN  /\ ret' = [raised |-> r.raised, value |-> r.ret]
           /\ log' = r.log
           /\ fnCalls' = r.fnCalls
    /\ op' = "native"
    /\ args' = << >>
    /\ trace' = << >>
    /\ UNCHANGED <<coordinator, refreshed, refreshes, desc, entity, computed>>

----------------------------------------------------------------------------

Next ==
    \/ \E source \in PolledSources, data \in SubObjects : Refresh(source, data)
    \/ \E ds \in DescSources, at \in DescAttributes, fn \in DescFns, ex \in DescExtras :
           NewDescription(ds, at, fn, ex)
    \/ \E field \in {"data_source", "data_state_attribute"}, value \in {PyNone} :
           SetDescriptionField(field, value)
    \/ NewEntity
    \/ HandleCoordinatorUpdate
    \/ GetExtraStateAttributes
    \/ GetNativeValue

Spec == Init /\ [][Next]_vars

----------------------------------------------------------------------------
(* Properties *)

\* the descriptor names a data source and a state attribute
Configured == Truthy(desc.data_source) /\ Truthy(desc.data_state_attribute)

\* the sub-object the descriptor's data source names, as the coordinator holds it now
Data == GetAttrCoordinator(coordinator, desc.data_source.s)

\* the keys of a mapping given as a sequence of (key, attribute) items
Keys(items) == { items[i][1] : i \in DOMAIN items }

EmptyDict == PyDict(<< >>)

\* C1: a descriptor that exists has data_source and data_state_attribute both
\* supplied or both omitted; a construction with exactly one of them supplied
\* raises ValueError and yields no descriptor; and no later step changes an
\* existing descriptor.
C1_DescriptionPaired ==
    [][ /\ desc' # NoDescription =>
               (Truthy(desc'.data_source) <=> Truthy(desc'.data_state_attribute))
        /\ op' = "description" =>
               LET one == Truthy(args'[1]) # Truthy(args'[2])
               IN  /\ one <=> ret'.raised = "ValueError"
                   /\ one => desc' = NoDescription
                   /\ ~one => /\ desc' # NoDescription
                              /\ desc'.data_source = args'[1]
                              /\ desc'.data_state_attribute = args'[2]
        /\ desc # NoDescription => desc' = desc ]_vars

\* a construction with only the attribute supplied was refused
C1_Witness ==
    /\ op = "description"
    /\ ~Truthy(args[1]) /\ Truthy(args[2])
    /\ ret.raised = "ValueError"
    /\ desc = NoDescription

\* C2: with data source and state attribute configured, get_native_value returns
\* None without raising and logs a record whenever the sub-object is absent,
\* the field does not exist on it, or the field holds None.
C2_MissingDataIsNoneAndLogged ==
    (/\ op = "native"
     /\ Configured
     /\ \/ Data = PyNone
        \/ ~HasAttr(Data, desc.data_state_attribute.s)
        \/ GetAttr(Data, desc.data_state_attribute.s) = PyNone)
    => /\ ret.raised = ""
       /\ ret.value = PyNone
       /\ Len(log) >= 1

\* the field named by the descriptor does not exist on a sub-object that is there
C2_Witness ==
    /\ op = "native"
    /\ Configured
    /\ Data # PyNone /\ Data.truthy
    /\ ~HasAttr(Data, desc.data_state_attribute.s)
    /\ ret = NoReturn
    /\ Len(log) = 1 /\ log[1].level = "error"

\* C3: get_native_value raises PolestarEntityDataSourceException exactly when the
\* descriptor lacks both data source and state attribute, whatever the
\* coordinator holds; with both configured it returns a value or None.
C3_RaisesOnlyWhenUnconfigured ==
    op = "native" =>
        /\ (~Truthy(desc.data_source) /\ ~Truthy(desc.data_state_attribute))
               <=> ret.raised = "PolestarEntityDataSourceException"
        /\ Configured => ret.raised = ""
        /\ ret.raised \in {"", "PolestarEntityDataSourceException"}

\* an unconfigured descriptor raised although the coordinator holds data
C3_Witness ==
    /\ op = "native"
    /\ ~Truthy(desc.data_source)
    /\ ret.raised = "PolestarEntityDataSourceException"
    /\ coordinator.car_battery_data # PyNone
    /\ coordinator.car_battery_data.truthy

\* C4: when the sub-object is present and the named field holds a value v that is
\* not None, get_native_value returns data_state_fn(v) if a transform is
\* configured and v otherwise, with the transform called exactly once; the
\* transform is never called when get_native_value returns None.
C4_ValueReturned ==
    op = "native" =>
        /\ (/\ Configured
            /\ Data # PyNone
            /\ HasAttr(Data, desc.data_state_attribute.s)
            /\ GetAttr(Data, desc.data_state_attribute.s) # PyNone)
           => LET v == GetAttr(Data, desc.data_state_attribute.s)
              IN  IF desc.data_state_fn # PyNone
                  THEN ret.value = Call(desc.data_state_fn, v) /\ fnCalls = 1
                  ELSE ret.value = v /\ fnCalls = 0
        /\ ret.value = PyNone => fnCalls = 0

\* C5: no operation of the entity changes the coordinator: its data are what the
\* external refresh last set them to.
C5_CoordinatorOnlyRead == coordinator = refreshed

\* every entity operation has run on refreshed data
C5_Witness ==
    /\ op = "native"
    /\ refreshes > 0
    /\ Configured
    /\ Data # PyNone
    /\ ret.value # PyNone
    /\ coordinator # NewCoordinator

\* C6: the getters do not cache and leave the entity unchanged: each call returns
\* what the descriptor and the coordinator data of that moment determine, also
\* when the data changed without a notification.
C6_GettersDoNotCache ==
    [][ /\ op' = "native" =>
               /\ entity' = entity
               /\ ret' = [raised |-> get_native_value(desc', coordinator').raised,
                          value  |-> get_native_value(desc', coordinator').ret]
        /\ op' = "extra" =>
               /\ entity' = entity
               /\ ret' = [raised |-> "",
                          value  |-> get_extra_state_attributes(desc', coordinator').ret] ]_vars

\* the getter returned new data while the stored attributes are the old ones
C6_Witness ==
    /\ op = "extra"
    /\ entity.has_extra
    /\ entity.extra = EmptyDict
    /\ ret.value # PyNone
    /\ ret.value # entity.extra

\* C7: for a descriptor with a non-empty extra-attribute mapping the stored
\* attributes are a dictionary after construction and after every update, and
\* the empty dictionary whenever the descriptor has no data source or the
\* sub-object is None at that moment.
C7_StoredDefaultsToEmpty ==
    (entity # NoEntity /\ Truthy(desc.data_extra_state_attributes))
    => /\ entity.has_extra
       /\ entity.extra.t = "dict"
       /\ (/\ op \in {"entity", "update"}
           /\ \/ ~Truthy(desc.data_source)
              \/ Data = PyNone)
          => entity.extra = EmptyDict

\* an update found the sub-object gone and stored the empty dictionary
C7_Witness ==
    /\ op = "update"
    /\ Truthy(desc.data_extra_state_attributes)
    /\ Truthy(desc.data_source)
    /\ Data = PyNone
    /\ entity.extra = EmptyDict
    /\ log # << >>

\* what holds of the update handler and of an entity without a mapping
C8_HandlerOrder ==
    /\ op \in {"entity", "update"} /\ entity.has_extra
           => computed = get_extra_state_attributes(desc, coordinator).ret
    /\ op = "update" =>
           /\ trace[Len(trace)] = "super"
           /\ entity.has_extra => trace = <<"store", "super">>
    /\ (entity # NoEntity /\ ~Truthy(desc.data_extra_state_attributes))
           => ~entity.has_extra

\* C8 as stated: the stored attributes equal what get_extra_state_attributes
\* computed at the most recent notification (or at construction), the host's
\* handler runs after the store, and an entity without a mapping never
\* acquires the attribute.
C8_StoredEqualsComputed ==
    entity # NoEntity =>
        /\ entity.has_extra => entity.extra = computed
        /\ C8_HandlerOrder

\* C8 amended: the stored attributes equal what get_extra_state_attributes
\* computed at the most recent notification (or at construction), or the empty
\* dictionary when it returned None; the host's handler runs after the store,
\* and an entity without a mapping never acquires the attribute.
C8_StoredEqualsComputedOrEmpty ==
    entity # NoEntity =>
        /\ entity.has_extra =>
               entity.extra = (IF computed = PyNone THEN EmptyDict ELSE computed)
        /\ C8_HandlerOrder

\* a notification after a refresh stored the attributes read from the new data
C8_Witness ==
    /\ op = "update"
    /\ refreshes > 0
    /\ entity.has_extra
    /\ entity.extra # EmptyDict
    /\ trace = <<"store", "super">>

\* C9: with a data source, a non-empty mapping and a sub-object that is not
\* None, get_extra_state_attributes returns a dictionary whose keys are the
\* keys of the mapping; each key maps to the value of its field, and to None
\* when the field does not exist or holds None.
C9_ExtraKeysComplete ==
    (/\ op = "extra"
     /\ Truthy(desc.data_source)
     /\ Truthy(desc.data_extra_state_attributes)
     /\ Data # PyNone)
    => LET items == desc.data_extra_state_attributes.d
       IN  /\ ret.value.t = "dict"
           /\ DOMAIN ret.value.d = Keys(items)
           /\ \A i \in DOMAIN items :
                  ret.value.d[items[i][1]] =
                      (IF items[i][2] \in DOMAIN Data.f
                       THEN Data.f[items[i][2]]
                       ELSE PyNone)

\* one field is missing, its key is None and the other key has its value
C9_Witness ==
    /\ op = "extra"
    /\ Truthy(desc.data_source)
    /\ Data # PyNone
    /\ ret.value.t = "dict"
    /\ DOMAIN ret.value.d = {"k1", "k2"}
    /\ ~HasAttr(Data, "a")
    /\ ret.value.d["k1"] = PyNone
    /\ ret.value.d["k2"] = PyInt(1)

\* C10: only absence counts as missing data in get_native_value: a field value
\* that is falsy but not None is returned (or its transform), not None; and the
\* two getters agree on when the sub-object is absent: in no coordinator state
\* one of them reports the sub-object missing while the other reads its fields.
C10_OnlyAbsenceIsMissing ==
    /\ (/\ op = "native"
        /\ Configured
        /\ Data # PyNone
        /\ HasAttr(Data, desc.data_state_attribute.s)
        /\ GetAttr(Data, desc.data_state_attribute.s) # PyNone
        /\ ~Truthy(GetAttr(Data, desc.data_state_attribute.s)))
       => ret.value # PyNone
    /\ (/\ entity # NoEntity
        /\ Configured
        /\ Truthy(desc.data_extra_state_attributes))
       => LET n == get_native_value(desc, coordinator)
              e == get_extra_state_attributes(desc, coordinator)
              missing == << LogRecord("debug", "unavailable", desc.data_source.s) >>
          IN  (n.log = missing) <=> (e.log = missing)

====
